---- MODULE Spec2Model ----
(***************************************************************************)
(* The grpc connection pool of shimingyah/pool: New, Get, the release of a *)
(* borrowed connection (decrRef), Close and deleteFrom, with the atomic    *)
(* counters index, current and ref, the slot array conns and the pool's    *)
(* RWMutex.  Every atomic operation, every slot access and every dial of   *)
(* Get, decrRef and Close is a step of its own, so that the goroutines     *)
(* interleave as the code lets them.                                       *)
(***************************************************************************)
EXTENDS Integers, Sequences, FiniteSets, Bags, TLC

\* ---------------------------------------------------------------- bounds
NumProcs == 2
MaxGets == 3
MaxCloses == 1
MaxActiveBound == 2
MaxStreamsBound == 2

Procs == 1..NumProcs

\* ------------------------------------------------------------- constants
MaxInt32 == 2147483647
MinInt32 == (-MaxInt32) - 1

\* atomic.AddInt32(&x, d) for d = 1 or d = -1: int32 arithmetic wraps around
AddInt32(x, d) ==
    IF d = 1 /\ x = MaxInt32 THEN MinInt32
    ELSE IF d = -1 /\ x = MinInt32 THEN MaxInt32
    ELSE x + d

Min(a, b) == IF a < b THEN a ELSE b

VARIABLES
    address,    \* New's address argument
    opt,        \* New's Options argument (Dial: whether a dial function is set)
    newRes,     \* "none" before New has run, "ok", or the error New returned
    index,      \* pool.index (uint32)
    current,    \* pool.current (int32)
    ref,        \* pool.ref (int32)
    conns,      \* pool.conns: slot -> pointer into heap, 0 is nil
    lockW,      \* the goroutine holding pool.RWMutex for writing, 0 if none
    heap,       \* the conn structs allocated by wrapConn, by pointer
    closed,     \* the grpc connections whose Close has been called
    panicked,   \* "" or the message of the panic that ended the process
    pc,         \* each goroutine's position
    nextRef,    \* Get's nextRef / decrRef's newRef
    cur,        \* Get's local current
    i,          \* the loop variable of Get's growth loop and of deleteFrom
    next,       \* Get's local next
    ret,        \* what the goroutine's last Get returned
    held,       \* the connections a goroutine has borrowed and not released
    relc,       \* the connection a goroutine is releasing
    gets,       \* number of Get calls made
    closes,     \* number of Close calls made
    releases,   \* number of releases made
    closeDone,  \* a Close call has returned
    after,      \* the goroutine's Get began after a Close had returned
    picks,      \* the slot indices Get selected, in order
    grew,       \* some Get took the growth branch
    dialFailed, \* some dial returned an error
    origin,     \* per heap pointer: the slot wrapConn's result was put in, -1 if none
    shrunk,     \* the heap pointers decrRef's deleteFrom has taken out of a slot
    mh,         \* PriorityQueue.mh: the minHeap slice, each Conn by its ordering key
    pqRes,      \* what the last PriorityQueue call returned, 0 is nil
    pqOp,       \* the last PriorityQueue call, "panic" if it panicked
    pqArg       \* the index the last PriorityQueue call was given, -1 if none

poolVars == <<index, current, ref, conns, lockW, heap, closed, panicked>>
procVars == <<pc, nextRef, cur, i, next, ret, held, relc>>
histVars == <<gets, closes, releases, closeDone, after, picks, grew, dialFailed, origin>>
pqVars == <<mh, pqRes, pqOp, pqArg>>
poolAll == <<address, opt, newRes, poolVars, procVars, histVars, shrunk>>
vars == <<poolAll, pqVars>>

NoRet == [conn |-> 0, err |-> "", path |-> "none"]

\* ------------------------------------------------------------ conn.go
wrapConn(cc) == [ClientConn |-> cc, unusable |-> FALSE, wait |-> 0]

\* Value returns the wrapped grpc connection
ValueOf(h, w) == h[w].ClientConn
Value(w) == ValueOf(heap, w)

\* the conn struct carries a transient marker only if it has such a field
IsOnce(w) == "once" \in DOMAIN heap[w] /\ heap[w].once

\* ------------------------------------------------------------ pool.go
Slots == 0..(opt.MaxActive - 1)

\* New without its check of MaxConcurrentStreams
NewError_noStreams(addr, o) ==
    IF addr = "" THEN "invalid address settings"
    ELSE IF ~o.Dial THEN "invalid dial settings"
    ELSE IF o.MaxIdle < 0 \/ o.MaxActive <= 0 \/ o.MaxIdle > o.MaxActive
         THEN "invalid maximum settings"
    ELSE ""

\* New's checks of its arguments, in the code's order
NewError(addr, o) ==
    IF addr = "" THEN "invalid address settings"
    ELSE IF ~o.Dial THEN "invalid dial settings"
    ELSE IF o.MaxIdle < 0 \/ o.MaxActive <= 0 \/ o.MaxIdle > o.MaxActive
         THEN "invalid maximum settings"
    ELSE IF o.MaxConcurrentStreams <= 0 THEN "invalid maximun settings"
    ELSE ""

\* the index at which deleteFrom(begin)'s loop ends
DeleteStop(cs, begin) ==
    LET nils == {k \in begin..(opt.MaxActive - 1) : cs[k] = 0}
    IN IF nils = {} THEN IF begin > opt.MaxActive THEN begin ELSE opt.MaxActive
       ELSE CHOOSE k \in nils : \A m \in nils : k <= m

\* deleteFrom, run to its end: the slots afterwards
DeleteConns(cs, begin) ==
    [k \in DOMAIN cs |-> IF begin <= k /\ k < DeleteStop(cs, begin) THEN 0 ELSE cs[k]]

\* deleteFrom emptying the slots without closing what they held
DeleteClosed_none(h, cs, begin) == {}

\* deleteFrom, run to its end: the grpc connections it closes
DeleteClosed(h, cs, begin) ==
    {ValueOf(h, cs[k]) : k \in begin..(DeleteStop(cs, begin) - 1)} \ {0}

\* New starting current at the size of the slot array
NewCurrent_active(o) == o.MaxActive

\* the pool struct New builds, before the warm-up dials
NewCurrent(o) == o.MaxIdle

\* New(address, option): the checks, the warm-up dials, of which the one
\* numbered failAt fails (none if failAt = MaxIdle), and p.Close() on failure
New ==
    /\ newRes = "none"
    /\ IF NewError(address, opt) # ""
       THEN /\ newRes' = NewError(address, opt)
            /\ UNCHANGED <<poolVars, origin, dialFailed>>
       ELSE \E failAt \in 0..opt.MaxIdle :
            LET filled == [k \in Slots |-> IF k < failAt THEN k + 1 ELSE 0]
            IN /\ heap' = [k \in 1..failAt |-> wrapConn(k)]
               /\ origin' = [k \in 1..failAt |-> k - 1]
               /\ index' = 0
               /\ ref' = 0
               /\ current' = NewCurrent(opt)
               /\ lockW' = 0
               /\ panicked' = ""
               /\ IF failAt = opt.MaxIdle
                  THEN /\ conns' = filled
                       /\ closed' = {}
                       /\ newRes' = "ok"
                       /\ UNCHANGED dialFailed
                  ELSE /\ conns' = DeleteConns(filled, 0)
                       /\ closed' = DeleteClosed(heap', filled, 0)
                       /\ newRes' = "dial is not able to fill the pool"
                       /\ dialFailed' = TRUE
    /\ UNCHANGED <<pqVars, shrunk, address, opt, procVars>>
    /\ UNCHANGED <<gets, closes, releases, closeDone, after, picks, grew>>

Running == newRes = "ok" /\ panicked = ""

\* the counter read where AddUint32 should add to it
AddIndex_stale == index

\* atomic.AddUint32(&p.index, 1); the counter wraps at 2^32, which MaxGets
\* calls do not reach
AddIndex == index + 1

\* the slot chosen from the value the counter had before the addition
NextSlot_before(idx, n) == (idx - 1) % n

\* the slot chosen from the value AddUint32 returned
NextSlot(idx, n) == idx % n

\* Get: nextRef := p.incrRef(), up to the test of newRef.  The atomic add
\* is the step the other goroutines see; the panic is a later step
Get_incrRef(p) ==
    /\ Running /\ pc[p] = "idle" /\ gets < MaxGets
    /\ gets' = gets + 1
    /\ ref' = AddInt32(ref, 1)
    /\ after' = [after EXCEPT ![p] = closeDone]
    /\ ret' = [ret EXCEPT ![p] = NoRet]
    /\ nextRef' = [nextRef EXCEPT ![p] = ref']
    /\ pc' = [pc EXCEPT ![p] = IF ref' = MaxInt32 THEN "incrRef_panic" ELSE "Get_RLock"]
    /\ UNCHANGED panicked
    /\ UNCHANGED <<pqVars, shrunk, address, opt, newRes, index, current, conns, lockW, heap, closed>>
    /\ UNCHANGED <<cur, i, next, held, relc>>
    /\ UNCHANGED <<closes, releases, closeDone, picks, grew, dialFailed, origin>>

\* incrRef: panic(fmt.Sprintf("overflow ref: %d", newRef)), which ends the
\* process
incrRef_panic(p) ==
    /\ Running /\ pc[p] = "incrRef_panic"
    /\ panicked' = "overflow ref"
    /\ pc' = [pc EXCEPT ![p] = "panicked"]
    /\ UNCHANGED <<pqVars, shrunk, address, opt, newRes, index, current, ref, conns, lockW, heap, closed>>
    /\ UNCHANGED <<nextRef, cur, i, next, ret, held, relc>>
    /\ UNCHANGED histVars

\* the limit Get compares nextRef with
Limit(c) == c * opt.MaxConcurrentStreams

\* Get's first test: the created connections have room
HasRoom(n, c) == n < Limit(c)

\* Get: RLock, load current, RUnlock, and the choice of the branch
Get_RLock(p) ==
    /\ Running /\ pc[p] = "Get_RLock" /\ lockW = 0
    /\ cur' = [cur EXCEPT ![p] = current]
    /\ IF HasRoom(nextRef[p], current)
       THEN pc' = [pc EXCEPT ![p] = "Get_fast"] /\ UNCHANGED <<i, grew>>
       ELSE IF current < opt.MaxActive
       THEN /\ pc' = [pc EXCEPT ![p] = "Get_grow"]
            /\ i' = [i EXCEPT ![p] = current]
            /\ grew' = TRUE
       ELSE IF opt.Wait
       THEN pc' = [pc EXCEPT ![p] = "Get_wait"] /\ UNCHANGED <<i, grew>>
       ELSE pc' = [pc EXCEPT ![p] = "Get_over"] /\ UNCHANGED <<i, grew>>
    /\ UNCHANGED <<pqVars, shrunk, address, opt, newRes, poolVars>>
    /\ UNCHANGED <<nextRef, next, ret, held, relc>>
    /\ UNCHANGED <<gets, closes, releases, closeDone, after, picks, dialFailed, origin>>

\* Get, first branch: next := AddUint32(&p.index, 1) % uint32(current)
Get_fast(p) ==
    /\ Running /\ pc[p] = "Get_fast"
    /\ index' = AddIndex
    /\ next' = [next EXCEPT ![p] = NextSlot(index', cur[p])]
    /\ picks' = Append(picks, next'[p])
    /\ pc' = [pc EXCEPT ![p] = "Get_ret_fast"]
    /\ UNCHANGED <<pqVars, shrunk, address, opt, newRes, current, ref, conns, lockW, heap, closed, panicked>>
    /\ UNCHANGED <<nextRef, cur, i, ret, held, relc>>
    /\ UNCHANGED <<gets, closes, releases, closeDone, after, grew, dialFailed, origin>>

\* the number of slots the growth branch adds
Increment(c) == IF c + c > opt.MaxActive THEN opt.MaxActive - c ELSE c

\* the round of the growth loop, were a failed dial to give the reservation
\* back before returning
Get_grow_dial_rollback(p) ==
    /\ Running /\ pc[p] = "Get_grow"
    /\ i[p] < cur[p] + Increment(cur[p])
    /\ \E ok \in BOOLEAN :
        IF ok
        THEN /\ heap' = Append(heap, wrapConn(Len(heap) + 1))
             /\ origin' = Append(origin, i[p])
             /\ conns' = [conns EXCEPT ![i[p]] = Len(heap) + 1]
             /\ i' = [i EXCEPT ![p] = i[p] + 1]
             /\ UNCHANGED <<pc, ret, dialFailed, cur, ref>>
        ELSE /\ ret' = [ret EXCEPT ![p] = [conn |-> 0, err |-> "dial", path |-> "grow"]]
             /\ pc' = [pc EXCEPT ![p] = "idle"]
             /\ i' = [i EXCEPT ![p] = 0]
             /\ cur' = [cur EXCEPT ![p] = 0]
             /\ dialFailed' = TRUE
             /\ ref' = AddInt32(ref, -1)
             /\ UNCHANGED <<heap, origin, conns>>
    /\ UNCHANGED <<pqVars, shrunk, address, opt, newRes, index, current, lockW, closed, panicked>>
    /\ UNCHANGED <<nextRef, next, held, relc>>
    /\ UNCHANGED <<gets, closes, releases, closeDone, after, picks, grew>>

\* Get, second branch: one round of the loop, a dial and p.conns[i] = wrapConn(c)
Get_grow_dial(p) ==
    /\ Running /\ pc[p] = "Get_grow"
    /\ i[p] < cur[p] + Increment(cur[p])
    /\ \E ok \in BOOLEAN :
        IF ok
        THEN /\ heap' = Append(heap, wrapConn(Len(heap) + 1))
             /\ origin' = Append(origin, i[p])
             /\ conns' = [conns EXCEPT ![i[p]] = Len(heap) + 1]
             /\ i' = [i EXCEPT ![p] = i[p] + 1]
             /\ UNCHANGED <<pc, ret, dialFailed, cur>>
        ELSE /\ ret' = [ret EXCEPT ![p] = [conn |-> 0, err |-> "dial", path |-> "grow"]]
             /\ pc' = [pc EXCEPT ![p] = "idle"]
             /\ i' = [i EXCEPT ![p] = 0]
             /\ cur' = [cur EXCEPT ![p] = 0]
             /\ dialFailed' = TRUE
             /\ UNCHANGED <<heap, origin, conns>>
    /\ UNCHANGED <<pqVars, shrunk, address, opt, newRes, index, current, ref, lockW, closed, panicked>>
    /\ UNCHANGED <<nextRef, next, held, relc>>
    /\ UNCHANGED <<gets, closes, releases, closeDone, after, picks, grew>>

\* Get, second branch: atomic.StoreInt32(&p.current, current+increment)
Get_grow_store(p) ==
    /\ Running /\ pc[p] = "Get_grow"
    /\ i[p] >= cur[p] + Increment(cur[p])
    /\ current' = cur[p] + Increment(cur[p])
    /\ pc' = [pc EXCEPT ![p] = "Get_grow_pick"]
    /\ UNCHANGED <<pqVars, shrunk, address, opt, newRes, index, ref, conns, lockW, heap, closed, panicked>>
    /\ UNCHANGED <<nextRef, cur, i, next, ret, held, relc>>
    /\ UNCHANGED histVars

\* Get, second branch: next := AddUint32(&p.index, 1) % uint32(current+increment)
Get_grow_pick(p) ==
    /\ Running /\ pc[p] = "Get_grow_pick"
    /\ index' = AddIndex
    /\ IF cur[p] + Increment(cur[p]) = 0
       THEN /\ panicked' = "integer divide by zero"
            /\ pc' = [pc EXCEPT ![p] = "panicked"]
            /\ UNCHANGED <<next, picks>>
       ELSE /\ next' = [next EXCEPT ![p] = NextSlot(index', cur[p] + Increment(cur[p]))]
            /\ picks' = Append(picks, next'[p])
            /\ pc' = [pc EXCEPT ![p] = "Get_ret_grow"]
            /\ UNCHANGED panicked
    /\ UNCHANGED <<pqVars, shrunk, address, opt, newRes, current, ref, conns, lockW, heap, closed>>
    /\ UNCHANGED <<nextRef, cur, i, ret, held, relc>>
    /\ UNCHANGED <<gets, closes, releases, closeDone, after, grew, dialFailed, origin>>

\* the third branch, were Wait to wait until a connection has been given back
Get_wait_add_blocking(p) ==
    /\ Running /\ pc[p] = "Get_wait"
    /\ ref <= Limit(current)
    /\ index' = AddIndex
    /\ next' = [next EXCEPT ![p] = index']
    /\ pc' = [pc EXCEPT ![p] = "Get_wait_load"]
    /\ UNCHANGED <<pqVars, shrunk, address, opt, newRes, current, ref, conns, lockW, heap, closed, panicked>>
    /\ UNCHANGED <<nextRef, cur, i, ret, held, relc>>
    /\ UNCHANGED histVars

\* Get, third branch: atomic.AddUint32(&p.index, 1)
Get_wait_add(p) ==
    /\ Running /\ pc[p] = "Get_wait"
    /\ index' = AddIndex
    /\ next' = [next EXCEPT ![p] = index']
    /\ pc' = [pc EXCEPT ![p] = "Get_wait_load"]
    /\ UNCHANGED <<pqVars, shrunk, address, opt, newRes, current, ref, conns, lockW, heap, closed, panicked>>
    /\ UNCHANGED <<nextRef, cur, i, ret, held, relc>>
    /\ UNCHANGED histVars

\* Get, third branch: % uint32(atomic.LoadInt32(&p.current))
Get_wait_load(p) ==
    /\ Running /\ pc[p] = "Get_wait_load"
    /\ IF current = 0
       THEN /\ panicked' = "integer divide by zero"
            /\ pc' = [pc EXCEPT ![p] = "panicked"]
            /\ UNCHANGED <<next, picks>>
       ELSE /\ next' = [next EXCEPT ![p] = NextSlot(next[p], current)]
            /\ picks' = Append(picks, next'[p])
            /\ pc' = [pc EXCEPT ![p] = "Get_ret_wait"]
            /\ UNCHANGED panicked
    /\ UNCHANGED <<pqVars, shrunk, address, opt, newRes, index, current, ref, conns, lockW, heap, closed>>
    /\ UNCHANGED <<nextRef, cur, i, ret, held, relc>>
    /\ UNCHANGED <<gets, closes, releases, closeDone, after, grew, dialFailed, origin>>

\* the branch a position of Get's return belongs to
PathOf(at) ==
    IF at = "Get_ret_fast" THEN "fast" ELSE IF at = "Get_ret_grow" THEN "grow" ELSE "wait"

\* Get, first to third branch: return p.conns[next], nil
Get_return(p) ==
    /\ Running /\ pc[p] \in {"Get_ret_fast", "Get_ret_grow", "Get_ret_wait"}
    /\ ret' = [ret EXCEPT ![p] = [conn |-> conns[next[p]], err |-> "", path |-> PathOf(pc[p])]]
    /\ held' = [held EXCEPT ![p] = IF conns[next[p]] = 0 THEN @
                                   ELSE @ (+) SetToBag({conns[next[p]]})]
    /\ pc' = [pc EXCEPT ![p] = "idle"]
    /\ nextRef' = [nextRef EXCEPT ![p] = 0]
    /\ cur' = [cur EXCEPT ![p] = 0]
    /\ i' = [i EXCEPT ![p] = 0]
    /\ next' = [next EXCEPT ![p] = 0]
    /\ UNCHANGED <<pqVars, shrunk, address, opt, newRes, poolVars, relc, histVars>>

\* Get, fourth branch: c, err := p.opt.Dial(p.address); return p.wrapConn(c), err
Get_over(p) ==
    /\ Running /\ pc[p] = "Get_over"
    /\ \E ok \in BOOLEAN :
        /\ heap' = Append(heap, wrapConn(IF ok THEN Len(heap) + 1 ELSE 0))
        /\ origin' = Append(origin, -1)
        /\ ret' = [ret EXCEPT ![p] = [conn |-> Len(heap) + 1,
                                      err |-> IF ok THEN "" ELSE "dial",
                                      path |-> "over"]]
        /\ held' = [held EXCEPT ![p] = IF ok THEN @ (+) SetToBag({Len(heap) + 1}) ELSE @]
        /\ dialFailed' = (dialFailed \/ ~ok)
    /\ pc' = [pc EXCEPT ![p] = "idle"]
    /\ nextRef' = [nextRef EXCEPT ![p] = 0]
    /\ cur' = [cur EXCEPT ![p] = 0]
    /\ UNCHANGED <<pqVars, shrunk, address, opt, newRes, index, current, ref, conns, lockW, closed, panicked>>
    /\ UNCHANGED <<i, next, relc>>
    /\ UNCHANGED <<gets, closes, releases, closeDone, after, picks, grew>>

\* decrRef: newRef := atomic.AddInt32(&p.ref, -1), called by the release of a
\* borrowed connection
decrRef_add(p, w) ==
    /\ Running /\ pc[p] = "idle" /\ BagIn(w, held[p])
    /\ held' = [held EXCEPT ![p] = @ (-) SetToBag({w})]
    /\ releases' = releases + 1
    /\ ref' = AddInt32(ref, -1)
    /\ IF ref' < 0
       THEN /\ panicked' = "negative ref"
            /\ pc' = [pc EXCEPT ![p] = "panicked"]
            /\ UNCHANGED <<relc, nextRef>>
       ELSE /\ relc' = [relc EXCEPT ![p] = w]
            /\ nextRef' = [nextRef EXCEPT ![p] = ref']
            /\ pc' = [pc EXCEPT ![p] = IF ref' = 0 THEN "decrRef_load" ELSE "Release_reset"]
            /\ UNCHANGED panicked
    /\ UNCHANGED <<pqVars, shrunk, address, opt, newRes, index, current, conns, lockW, heap, closed>>
    /\ UNCHANGED <<cur, i, next, ret>>
    /\ UNCHANGED <<gets, closes, closeDone, after, picks, grew, dialFailed, origin>>

\* decrRef's test for shrinking
AboveIdle(c) == c > opt.MaxIdle

\* decrRef: atomic.LoadInt32(&p.current) > int32(p.opt.MaxIdle)
decrRef_load(p) ==
    /\ Running /\ pc[p] = "decrRef_load"
    /\ pc' = [pc EXCEPT ![p] = IF AboveIdle(current) THEN "decrRef_Lock" ELSE "Release_reset"]
    /\ UNCHANGED <<pqVars, shrunk, address, opt, newRes, poolVars, histVars>>
    /\ UNCHANGED <<nextRef, cur, i, next, ret, held, relc>>

\* decrRef's locked part without the second look at ref
decrRef_Lock_unchecked(p) ==
    /\ Running /\ pc[p] = "decrRef_Lock" /\ lockW = 0
    /\ lockW' = p
    /\ current' = opt.MaxIdle
    /\ i' = [i EXCEPT ![p] = opt.MaxIdle]
    /\ pc' = [pc EXCEPT ![p] = "decrRef_deleteFrom"]
    /\ UNCHANGED <<pqVars, shrunk, address, opt, newRes, index, ref, conns, heap, closed, panicked>>
    /\ UNCHANGED <<nextRef, cur, next, ret, held, relc>>
    /\ UNCHANGED histVars

\* decrRef: p.Lock(), the second look at ref, and the store of current
decrRef_Lock(p) ==
    /\ Running /\ pc[p] = "decrRef_Lock" /\ lockW = 0
    /\ lockW' = p
    /\ IF ref = 0
       THEN /\ current' = opt.MaxIdle
            /\ i' = [i EXCEPT ![p] = opt.MaxIdle]
            /\ pc' = [pc EXCEPT ![p] = "decrRef_deleteFrom"]
       ELSE /\ pc' = [pc EXCEPT ![p] = "decrRef_Unlock"]
            /\ UNCHANGED <<current, i>>
    /\ UNCHANGED <<pqVars, shrunk, address, opt, newRes, index, ref, conns, heap, closed, panicked>>
    /\ UNCHANGED <<nextRef, cur, next, ret, held, relc>>
    /\ UNCHANGED histVars

\* deleteFrom's loop ends at i: the end of the array or an empty slot
DeleteEnds(k) == k >= opt.MaxActive \/ conns[k] = 0

\* one round of deleteFrom's loop: the slot is emptied and its connection closed
deleteFrom_round(p) ==
    /\ conns' = [conns EXCEPT ![i[p]] = 0]
    /\ closed' = closed \cup ({Value(conns[i[p]])} \ {0})
    /\ i' = [i EXCEPT ![p] = i[p] + 1]

\* decrRef: a round of p.deleteFrom(p.opt.MaxIdle)
decrRef_deleteFrom(p) ==
    /\ Running /\ pc[p] = "decrRef_deleteFrom"
    /\ IF DeleteEnds(i[p])
       THEN /\ pc' = [pc EXCEPT ![p] = "decrRef_Unlock"]
            /\ i' = [i EXCEPT ![p] = 0]
            /\ UNCHANGED <<conns, closed, shrunk>>
       ELSE /\ deleteFrom_round(p)
            /\ shrunk' = shrunk \cup {conns[i[p]]}
            /\ UNCHANGED pc
    /\ UNCHANGED <<pqVars, address, opt, newRes, index, current, ref, lockW, heap, panicked>>
    /\ UNCHANGED <<nextRef, cur, next, ret, held, relc>>
    /\ UNCHANGED histVars

\* decrRef: p.Unlock()
decrRef_Unlock(p) ==
    /\ Running /\ pc[p] = "decrRef_Unlock"
    /\ lockW' = 0
    /\ pc' = [pc EXCEPT ![p] = "Release_reset"]
    /\ UNCHANGED <<pqVars, shrunk, address, opt, newRes, index, current, ref, conns, heap, closed, panicked>>
    /\ UNCHANGED <<nextRef, cur, i, next, ret, held, relc>>
    /\ UNCHANGED histVars

\* the release of a connection, after decrRef: a transient or unusable
\* connection is closed
Release_reset(p) ==
    /\ Running /\ pc[p] = "Release_reset"
    /\ closed' = IF IsOnce(relc[p]) \/ heap[relc[p]].unusable
                 THEN closed \cup ({Value(relc[p])} \ {0})
                 ELSE closed
    /\ relc' = [relc EXCEPT ![p] = 0]
    /\ nextRef' = [nextRef EXCEPT ![p] = 0]
    /\ pc' = [pc EXCEPT ![p] = "idle"]
    /\ UNCHANGED <<pqVars, shrunk, address, opt, newRes, index, current, ref, conns, lockW, heap, panicked>>
    /\ UNCHANGED <<cur, i, next, ret, held>>
    /\ UNCHANGED histVars

\* conn.MarkUnusable, called by a borrower on a connection it holds:
\* c.unusable = true under the conn's own lock
MarkUnusable(p, w) ==
    /\ Running /\ pc[p] = "idle" /\ BagIn(w, held[p])
    /\ heap' = [heap EXCEPT ![w].unusable = TRUE]
    /\ UNCHANGED <<pqVars, shrunk, address, opt, newRes, index, current, ref, conns, lockW, closed, panicked>>
    /\ UNCHANGED <<procVars, histVars>>

\* what Close stores in index and in ref
CloseIndex == 0
CloseRef == 0

\* Close: atomic.StoreUint32(&p.index, 0)
Close_index(p) ==
    /\ Running /\ pc[p] = "idle" /\ closes < MaxCloses
    /\ closes' = closes + 1
    /\ index' = CloseIndex
    /\ pc' = [pc EXCEPT ![p] = "Close_ref"]
    /\ UNCHANGED <<pqVars, shrunk, address, opt, newRes, current, ref, conns, lockW, heap, closed, panicked>>
    /\ UNCHANGED <<nextRef, cur, i, next, ret, held, relc>>
    /\ UNCHANGED <<gets, releases, closeDone, after, picks, grew, dialFailed, origin>>

\* Close: atomic.StoreInt32(&p.ref, 0)
Close_ref(p) ==
    /\ Running /\ pc[p] = "Close_ref"
    /\ ref' = CloseRef
    /\ i' = [i EXCEPT ![p] = 0]
    /\ pc' = [pc EXCEPT ![p] = "Close_deleteFrom"]
    /\ UNCHANGED <<pqVars, shrunk, address, opt, newRes, index, current, conns, lockW, heap, closed, panicked>>
    /\ UNCHANGED <<nextRef, cur, next, ret, held, relc>>
    /\ UNCHANGED histVars

\* Close: a round of p.deleteFrom(0), and the return
Close_deleteFrom(p) ==
    /\ Running /\ pc[p] = "Close_deleteFrom"
    /\ IF DeleteEnds(i[p])
       THEN /\ pc' = [pc EXCEPT ![p] = "idle"]
            /\ i' = [i EXCEPT ![p] = 0]
            /\ closeDone' = TRUE
            /\ UNCHANGED <<conns, closed>>
       ELSE /\ deleteFrom_round(p)
            /\ UNCHANGED <<pc, closeDone>>
    /\ UNCHANGED <<pqVars, shrunk, address, opt, newRes, index, current, ref, lockW, heap, panicked>>
    /\ UNCHANGED <<nextRef, cur, next, ret, held, relc>>
    /\ UNCHANGED <<gets, closes, releases, after, picks, grew, dialFailed, origin>>

\* ------------------------------------------------------- specifications
Init ==
    /\ address \in {"", "127.0.0.1:50000"}
    /\ opt \in [Dial : BOOLEAN,
                MaxIdle : (-1)..(MaxActiveBound + 1),
                MaxActive : (-1)..MaxActiveBound,
                MaxConcurrentStreams : (-1)..MaxStreamsBound,
                Wait : BOOLEAN]
    /\ newRes = "none"
    /\ index = 0 /\ current = 0 /\ ref = 0
    /\ conns = <<>> /\ lockW = 0 /\ heap = <<>> /\ closed = {} /\ panicked = ""
    /\ pc = [p \in Procs |-> "idle"]
    /\ nextRef = [p \in Procs |-> 0]
    /\ cur = [p \in Procs |-> 0]
    /\ i = [p \in Procs |-> 0]
    /\ next = [p \in Procs |-> 0]
    /\ ret = [p \in Procs |-> NoRet]
    /\ held = [p \in Procs |-> EmptyBag]
    /\ relc = [p \in Procs |-> 0]
    /\ gets = 0 /\ closes = 0 /\ releases = 0
    /\ closeDone = FALSE
    /\ after = [p \in Procs |-> FALSE]
    /\ picks = <<>>
    /\ grew = FALSE
    /\ dialFailed = FALSE
    /\ origin = <<>>
    /\ shrunk = {}
    /\ mh = <<>> /\ pqRes = 0 /\ pqOp = "none" /\ pqArg = -1

\* one step of goroutine p
Step(p) ==
    \/ Get_incrRef(p)
    \/ Get_RLock(p)
    \/ Get_fast(p)
    \/ Get_grow_dial(p)
    \/ Get_grow_store(p)
    \/ Get_grow_pick(p)
    \/ Get_wait_add(p)
    \/ Get_wait_load(p)
    \/ Get_return(p)
    \/ Get_over(p)
    \/ \E w \in 1..Len(heap) : decrRef_add(p, w)
    \/ \E w \in 1..Len(heap) : MarkUnusable(p, w)
    \/ decrRef_load(p)
    \/ decrRef_Lock(p)
    \/ decrRef_deleteFrom(p)
    \/ decrRef_Unlock(p)
    \/ Release_reset(p)
    \/ Close_index(p)
    \/ Close_ref(p)
    \/ Close_deleteFrom(p)

Next == New \/ \E p \in Procs : Step(p)

\* any number of goroutines calling Get, releasing and calling Close
Spec == Init /\ [][Next]_vars

\* how far below math.MaxInt32 the counter of InitWrap starts
WrapStart == 2

\* a pool long in use, seen when ref has come within WrapStart of
\* math.MaxInt32: MaxIdle = 1, the slot of New's warm-up filled, and the
\* reservations of the earlier Gets not given back (their connections are
\* still borrowed, or their dial failed, which keeps the reservation).
\* gets, releases, held and picks count from here on
InitWrap ==
    /\ address = "127.0.0.1:50000"
    /\ opt \in [Dial : {TRUE}, MaxIdle : {1}, MaxActive : 1..MaxActiveBound,
                MaxConcurrentStreams : 1..MaxStreamsBound, Wait : BOOLEAN]
    /\ newRes = "ok"
    /\ index = 0 /\ current = 1
    /\ ref \in (MaxInt32 - WrapStart)..(MaxInt32 - 1)
    /\ conns = [k \in 0..(opt.MaxActive - 1) |-> IF k = 0 THEN 1 ELSE 0]
    /\ lockW = 0 /\ heap = <<wrapConn(1)>> /\ closed = {} /\ panicked = ""
    /\ pc = [p \in Procs |-> "idle"]
    /\ nextRef = [p \in Procs |-> 0]
    /\ cur = [p \in Procs |-> 0]
    /\ i = [p \in Procs |-> 0]
    /\ next = [p \in Procs |-> 0]
    /\ ret = [p \in Procs |-> NoRet]
    /\ held = [p \in Procs |-> EmptyBag]
    /\ relc = [p \in Procs |-> 0]
    /\ gets = 0 /\ closes = 0 /\ releases = 0
    /\ closeDone = FALSE
    /\ after = [p \in Procs |-> FALSE]
    /\ picks = <<>>
    /\ grew = FALSE
    /\ dialFailed = TRUE
    /\ origin = <<0>>
    /\ shrunk = {}
    /\ mh = <<>> /\ pqRes = 0 /\ pqOp = "none" /\ pqArg = -1

\* the goroutines of Spec, and the panic of incrRef, which the Gets of Spec
\* are too few to reach
NextWrap == (\E p \in Procs : Step(p)) \/ (\E p \in Procs : incrRef_panic(p))
SpecWrap == InitWrap /\ [][NextWrap]_vars

\* New alone, on every configuration
NextNew == New
SpecNew == Init /\ [][NextNew]_vars

\* one goroutine: the calls are sequential
NextSeq == New \/ Step(1)
SpecSeq == Init /\ [][NextSeq]_vars


\* a step of goroutine p inside a call it has begun: the steps that begin a
\* call (Get, the release of a connection, MarkUnusable, Close) are the
\* caller's choice, the others are what the Go scheduler keeps running
Continue(p) ==
    \/ Get_RLock(p)
    \/ Get_fast(p)
    \/ Get_grow_dial(p)
    \/ Get_grow_store(p)
    \/ Get_grow_pick(p)
    \/ Get_wait_add(p)
    \/ Get_wait_load(p)
    \/ Get_return(p)
    \/ Get_over(p)
    \/ decrRef_load(p)
    \/ decrRef_Lock(p)
    \/ decrRef_deleteFrom(p)
    \/ decrRef_Unlock(p)
    \/ Release_reset(p)
    \/ Close_ref(p)
    \/ Close_deleteFrom(p)

\* every call that has begun keeps running: each dial returns and each
\* holder of the lock gets to its Unlock; no release is ever required to begin
Fairness == \A p \in Procs : WF_vars(Continue(p))

\* the calls that take part in the pool's counting and locking: Get, the
\* release of a connection and Close (MarkUnusable is no guard of any step)
StepLive(p) ==
    \/ Get_incrRef(p)
    \/ \E w \in 1..Len(heap) : decrRef_add(p, w)
    \/ Close_index(p)
    \/ Continue(p)

NextLive == New \/ \E p \in Procs : StepLive(p)
SpecLive == Init /\ [][NextLive]_vars /\ Fairness


\* --------------------------------------------------------- PriorityQueue
MaxQueue == 4
MaxKey == 3

\* the Conn values a caller pushes, each named by its rank in the order
Keys == 1..MaxKey

\* Conn.Less: the caller-defined total order of the connections
ConnLess(a, b) == a < b

\* minHeap.Len
HeapLen(h) == Len(h)

\* minHeap.Less(i, j): h[i].Less(h[j]), the indices counted from 0
Less(h, a, b) == ConnLess(h[a + 1], h[b + 1])

\* minHeap.Swap(i, j)
Swap(h, a, b) == [h EXCEPT ![a + 1] = h[b + 1], ![b + 1] = h[a + 1]]

\* Go's integer division, which truncates toward zero
GoDiv(a, b) == IF a < 0 THEN -((-a) \div b) ELSE a \div b

\* container/heap up(h, j) as heap.Push runs it: sift h[j] toward the root,
\* and the variant that leaves the pushed element where it was appended
up_none(h, j) == h

RECURSIVE up(_, _)
up(h, j) ==
    LET parent == GoDiv(j - 1, 2)
    IN  IF parent = j \/ ~Less(h, j, parent)
        THEN h
        ELSE up(Swap(h, parent, j), parent)

\* container/heap down(h, i0, n) as heap.Pop runs it: sift h[i0] toward
\* the leaves among the first n elements
RECURSIVE down(_, _, _)
down(h, i0, n) ==
    LET j1 == 2 * i0 + 1
    IN  IF j1 >= n \/ j1 < 0
        THEN h
        ELSE LET j == IF j1 + 1 < n /\ Less(h, j1 + 1, j1) THEN j1 + 1 ELSE j1
             IN  IF ~Less(h, j, i0)
                 THEN h
                 ELSE down(Swap(h, i0, j), j, n)

\* container/heap down's result is i > i0; this is the i it ends at
RECURSIVE downAt(_, _, _)
downAt(h, i0, n) ==
    LET j1 == 2 * i0 + 1
    IN  IF j1 >= n \/ j1 < 0
        THEN i0
        ELSE LET j == IF j1 + 1 < n /\ Less(h, j1 + 1, j1) THEN j1 + 1 ELSE j1
             IN  IF ~Less(h, j, i0)
                 THEN i0
                 ELSE downAt(Swap(h, i0, j), j, n)

\* heap.Fix with its sift toward the root left out
Fix_down(h, pos) == down(h, pos, HeapLen(h))

\* heap.Fix(h, i): if !down(h, i, h.Len()) { up(h, i) }
Fix(h, pos) ==
    IF downAt(h, pos, HeapLen(h)) > pos
    THEN down(h, pos, HeapLen(h))
    ELSE up(h, pos)

\* heap.Remove(h, i): n := h.Len() - 1; if n != i { h.Swap(i, n);
\* if !down(h, i, n) { up(h, i) } }; return h.Pop().  x is what it returns
\* and rest what it leaves
Remove(h, pos) ==
    LET n == HeapLen(h) - 1
        s == Swap(h, pos, n)
        r == IF n = pos THEN h
             ELSE IF downAt(s, pos, n) > pos THEN down(s, pos, n) ELSE up(s, pos)
    IN  [x |-> r[n + 1], rest |-> SubSeq(r, 1, n)]

\* the process has not died of a panic inside a PriorityQueue call
PQRunning == pqOp # "panic"

\* PriorityQueue.Push(x): heap.Push, which is minHeap.Push (append) and up
PriorityQueue_Push(x) ==
    /\ PQRunning /\ HeapLen(mh) < MaxQueue
    /\ mh' = up(Append(mh, x), HeapLen(mh))
    /\ pqRes' = 0
    /\ pqOp' = "Push"
    /\ pqArg' = -1
    /\ UNCHANGED poolAll

\* PriorityQueue.Pop(): heap.Pop with no test of the length.  heap.Pop is
\* n := h.Len() - 1; h.Swap(0, n); down(h, 0, n); return h.Pop(), and on
\* an empty slice Swap(0, -1) indexes out of range: a run-time panic
PriorityQueue_Pop ==
    /\ PQRunning
    /\ IF HeapLen(mh) = 0
       THEN /\ pqOp' = "panic"
            /\ UNCHANGED <<mh, pqRes>>
       ELSE LET n == HeapLen(mh) - 1
                h == down(Swap(mh, 0, n), 0, n)
            IN  /\ pqRes' = h[n + 1]
                /\ mh' = SubSeq(h, 1, n)
                /\ pqOp' = "Pop"
    /\ pqArg' = -1
    /\ UNCHANGED poolAll

\* PriorityQueue.Top(): nil on an empty queue, else (*queue.mh)[0]
PriorityQueue_Top ==
    /\ PQRunning
    /\ pqRes' = IF HeapLen(mh) = 0 THEN 0 ELSE mh[1]
    /\ pqOp' = "Top"
    /\ pqArg' = -1
    /\ UNCHANGED mh
    /\ UNCHANGED poolAll

\* PriorityQueue.Fix(pos), at a position of the queue
PriorityQueue_Fix(pos) ==
    /\ PQRunning /\ pos < HeapLen(mh)
    /\ mh' = Fix(mh, pos)
    /\ pqRes' = 0
    /\ pqOp' = "Fix"
    /\ pqArg' = pos
    /\ UNCHANGED poolAll

\* PriorityQueue.Remove(pos), at a position of the queue
PriorityQueue_Remove(pos) ==
    /\ PQRunning /\ pos < HeapLen(mh)
    /\ mh' = Remove(mh, pos).rest
    /\ pqRes' = Remove(mh, pos).x
    /\ pqOp' = "Remove"
    /\ pqArg' = pos
    /\ UNCHANGED poolAll

\* the caller changes, in place, the ordering key of the connection at
\* position i, as Fix's contract has it do before calling Fix(i)
Mutate(pos, k) ==
    /\ PQRunning /\ pos < HeapLen(mh) /\ k # mh[pos + 1]
    /\ mh' = [mh EXCEPT ![pos + 1] = k]
    /\ pqRes' = 0
    /\ pqOp' = "Mutate"
    /\ pqArg' = pos
    /\ UNCHANGED poolAll

\* NewPriorityQueue: an empty minHeap (heap.Init of it changes nothing);
\* the pool of the same process is left unbuilt
InitPQ ==
    /\ Init
    /\ address = ""
    /\ opt = [Dial |-> FALSE, MaxIdle |-> 0, MaxActive |-> 0,
              MaxConcurrentStreams |-> 0, Wait |-> FALSE]

NextPQ ==
    \/ \E x \in Keys : PriorityQueue_Push(x)
    \/ PriorityQueue_Pop
    \/ PriorityQueue_Top

\* one goroutine calling Push, Pop and Top on one queue
SpecPQ == InitPQ /\ [][NextPQ]_vars

NextPQFix ==
    \/ NextPQ
    \/ \E pos \in 0..(MaxQueue - 1) : PriorityQueue_Fix(pos)
    \/ \E pos \in 0..(MaxQueue - 1) : PriorityQueue_Remove(pos)
    \/ \E pos \in 0..(MaxQueue - 1) : \E k \in Keys : Mutate(pos, k)

\* the same with Fix, Remove and keys that change in place
SpecPQFix == InitPQ /\ [][NextPQFix]_vars


\* ------------------------------------------------------------- claims
ValidOptions ==
    /\ address # "" /\ opt.Dial
    /\ 0 <= opt.MaxIdle /\ opt.MaxIdle <= opt.MaxActive
    /\ opt.MaxActive > 0 /\ opt.MaxConcurrentStreams > 0

\* C1: a Get that begins after Close has returned returns the error
\* "pool is closed" and no connection.
C1_GetAfterClose ==
    \A p \in Procs :
        (after[p] /\ ret[p].path # "none") =>
            (ret[p].err = "pool is closed" /\ ret[p].conn = 0)

\* every call has returned and every borrowed connection is released, with
\* no Close and no failed dial
AllCyclesDone ==
    /\ newRes = "ok" /\ panicked = "" /\ closes = 0 /\ ~dialFailed
    /\ \A p \in Procs : pc[p] = "idle" /\ held[p] = EmptyBag

\* the pool is back at its idle size
ShrunkBack ==
    /\ ref = 0 /\ current = opt.MaxIdle
    /\ \A k \in Slots : (conns[k] # 0) <=> (k < opt.MaxIdle)

\* C2: once all Get-then-release cycles are done (dials succeed, no Close),
\* ref = 0, current = MaxIdle, exactly the slots below MaxIdle are filled, and
\* every connection that was put in a slot at or above MaxIdle is closed.
C2_ShrunkAfterCycles ==
    AllCyclesDone =>
        /\ ShrunkBack
        /\ \A w \in 1..Len(heap) : origin[w] >= opt.MaxIdle => Value(w) \in closed

\* C3: after at most MaxIdle * MaxConcurrentStreams Get calls and no release
\* (and no Close), the pool has not grown: current = MaxIdle.
C3_NoGrowthWithinLimit ==
    (newRes = "ok" /\ closes = 0 /\ releases = 0
       /\ gets <= opt.MaxIdle * opt.MaxConcurrentStreams)
        => current = opt.MaxIdle

\* C4: a Get that finds the capacity used up while current < MaxActive grows
\* the pool: it does not panic, and as it returns current is above the value
\* it read and equals min(2 * that value, MaxActive), also when it read 0.
C4_GrowthDoubles ==
    [][\A p \in Procs :
        /\ pc[p] = "Get_grow_pick" => pc'[p] # "panicked"
        /\ (pc[p] = "Get_ret_grow" /\ pc'[p] = "idle") =>
              /\ current' > cur[p]
              /\ current' = Min(2 * cur[p], opt.MaxActive)]_vars

C7_NewDialFails ==
    (newRes # "none" /\ ValidOptions /\ dialFailed /\ gets = 0) =>
        /\ newRes = "dial is not able to fill the pool"
        /\ \A w \in 1..Len(heap) : Value(w) \in closed
        /\ \A k \in DOMAIN conns : conns[k] = 0

C7_Witness ==
    /\ newRes = "dial is not able to fill the pool"
    /\ Len(heap) >= 1
    /\ closed = 1..Len(heap)

\* C8: as Close returns, index = 0, ref = 0, current = 0, every slot is empty
\* and every connection that was in a slot is closed.
C8_CloseResets ==
    [][\A p \in Procs :
        (pc[p] = "Close_deleteFrom" /\ pc'[p] = "idle") =>
            /\ index' = 0 /\ ref' = 0 /\ current' = 0
            /\ \A k \in Slots : conns'[k] = 0
            /\ \A w \in 1..Len(heap) : origin[w] >= 0 => Value(w) \in closed']_vars

\* C9: a Get that finds current = MaxActive and the capacity used up, without
\* Wait, leaves the slots and current as they are and returns a newly dialed
\* connection marked transient (once); the release of that connection closes
\* it.
C9_Transient ==
    [][\A p \in Procs :
        /\ (pc[p] = "Get_over" /\ pc'[p] = "idle") =>
              /\ conns' = conns /\ current' = current
              /\ ret'[p].err = "" =>
                    /\ "once" \in DOMAIN heap'[ret'[p].conn]
                    /\ heap'[ret'[p].conn].once
        /\ (pc[p] = "Release_reset" /\ pc'[p] = "idle" /\ origin[relc[p]] = -1) =>
              Value(relc[p]) \in closed']_vars

\* no release, no growth and no Close since New returned the pool
FreshRun == newRes = "ok" /\ closes = 0 /\ releases = 0 /\ ~grew

\* C10 as stated: in sequential Get calls on a fresh pool with no release and
\* no growth, the j-th Get (from 0) is served from slot j mod current.
C10_RoundRobinFromZero ==
    FreshRun => \A j \in 1..Len(picks) : picks[j] = (j - 1) % current

\* C10, amended: in sequential Get calls on a fresh pool with no release and
\* no growth, the j-th Get (from 0) is served from slot (j + 1) mod current:
\* the slots are taken in the cyclic order 1, 2, ..., current-1, 0, 1, ...
C10_RoundRobinFromOne ==
    FreshRun => \A j \in 1..Len(picks) : picks[j] = j % current

C10_Witness ==
    /\ FreshRun /\ current = 2 /\ Len(picks) >= 3
    /\ picks[1] = 1 /\ picks[2] = 0 /\ picks[3] = 1

\* the connections in a heap slice, with their multiplicities
BagOfSeq(h) ==
    [v \in {h[k] : k \in 1..Len(h)} |-> Cardinality({k \in 1..Len(h) : h[k] = v})]

\* C14: Pop on a non-empty queue returns an element that no element of the
\* queue is Less than, and what remains is the previous contents minus that
\* one element.
C14_PopMinimum ==
    [][(pqOp' = "Pop" /\ mh' # mh) =>
          /\ \E k \in 1..Len(mh) : mh[k] = pqRes'
          /\ \A k \in 1..Len(mh) : ~ConnLess(mh[k], pqRes')
          /\ BagOfSeq(mh') (+) SetToBag({pqRes'}) = BagOfSeq(mh)]_vars

C14_Witness ==
    /\ pqOp = "Pop" /\ pqRes # 0 /\ Len(mh) >= 2
    /\ \E k \in 1..Len(mh) : ConnLess(pqRes, mh[k])

\* C15: Pop and Top on an empty queue each return nil without a panic, and
\* leave the queue empty and fit for later calls.
C15_EmptyPopTop ==
    /\ pqOp # "panic"
    /\ (pqOp = "Top" /\ mh = <<>>) => pqRes = 0

\* C11: when every release is of a connection an earlier successful Get
\* returned, released once, ref is never negative and the "negative ref"
\* panic is never reached.  (decrRef_add only releases what held records.)
C11_RefNeverNegative ==
    ref >= 0 /\ panicked # "negative ref"

\* goroutine p takes a step of the third branch of Get
WaitStep(p) ==
    pc[p] \in {"Get_wait", "Get_wait_load", "Get_ret_wait"} /\ pc'[p] # pc[p]

\* C12: with current = MaxActive, the capacity used up and Wait set, Get
\* dials nothing, leaves current and the slots as they are, and returns with
\* no error a connection that is in one of the slots below current.
C12_WaitPath ==
    [][\A p \in Procs :
          /\ WaitStep(p) =>
                (heap' = heap /\ conns' = conns /\ current' = current)
          /\ (WaitStep(p) /\ pc'[p] = "idle") =>
                /\ ret'[p].err = "" /\ ret'[p].conn # 0
                /\ \E k \in 0..(current - 1) : conns[k] = ret'[p].conn]_vars

\* C12 where no Close has been called
C12_WaitPathNoClose ==
    [][\A p \in Procs :
          closes = 0 =>
              /\ WaitStep(p) =>
                    (heap' = heap /\ conns' = conns /\ current' = current)
              /\ (WaitStep(p) /\ pc'[p] = "idle") =>
                    /\ ret'[p].err = "" /\ ret'[p].conn # 0
                    /\ \E k \in 0..(current - 1) : conns[k] = ret'[p].conn]_vars

\* goroutine p ends the release of a connection that came from a slot and
\* that a borrower has marked unusable
UnusableReleased(p) ==
    /\ pc[p] = "Release_reset" /\ pc'[p] = "idle"
    /\ heap[relc[p]].unusable /\ origin[relc[p]] >= 0

\* C16: a slot connection marked unusable is, when its borrower releases it,
\* closed and taken out of its slot, so that no later Get is given it; and
\* marking a connection twice is the same as marking it once.
C16_UnusableDiscarded ==
    [][\A p \in Procs :
          /\ UnusableReleased(p) =>
                /\ Value(relc[p]) \in closed'
                /\ \A k \in Slots : conns'[k] # relc[p]
          /\ \A w \in 1..Len(heap) :
                (heap[w].unusable /\ Len(heap') = Len(heap)) => heap'[w].unusable]_vars

\* goroutine p's growth writes a connection into slot i[p]
GrowthWrite(p) ==
    pc[p] = "Get_grow" /\ pc'[p] = "Get_grow" /\ i'[p] = i[p] + 1

\* goroutine p's growth stores current
GrowthStore(p) ==
    pc[p] = "Get_grow" /\ pc'[p] = "Get_grow_pick"

\* C17: growth is serialized: no two Get calls write the same slot, so a
\* growth only ever writes an empty slot, and the store that ends a growth
\* never lowers current.
C17_GrowthSerialized ==
    [][\A p \in Procs :
          /\ GrowthWrite(p) => conns[i[p]] = 0
          /\ GrowthStore(p) => current' >= current]_vars

\* no call is in progress
Quiescent ==
    /\ newRes = "ok" /\ panicked = "" /\ lockW = 0
    /\ \A p \in Procs : pc[p] = "idle"

\* C18: whenever no call is in progress, 0 <= current <= MaxActive, the
\* slots below current are filled and the slots from current on are empty.
C18_SlotShape ==
    Quiescent =>
        /\ 0 <= current /\ current <= opt.MaxActive
        /\ \A k \in Slots : (conns[k] # 0) <=> (k < current)

\* C18 where no Close has been called and no dial of Get has failed
C18_SlotShapeUndisturbed ==
    (Quiescent /\ closes = 0 /\ ~dialFailed) =>
        /\ 0 <= current /\ current <= opt.MaxActive
        /\ \A k \in Slots : (conns[k] # 0) <=> (k < current)

\* goroutine p's Get ends with a dial that failed, in the growth branch or
\* in the overflow branch
DialFails(p) ==
    /\ pc'[p] = "idle"
    /\ \/ pc[p] = "Get_grow"
       \/ pc[p] = "Get_over" /\ heap'[Len(heap')].ClientConn = 0

\* C19: a Get whose dial fails returns the dial error, leaves current at the
\* value it had before the Get, and leaves ref at the value its own
\* reservation gave it: one higher than before the Get.
C19_DialFailure ==
    [][\A p \in Procs :
          DialFails(p) =>
              /\ ret'[p].err = "dial"
              /\ current' = cur[p]
              /\ ref' = nextRef[p] /\ ref' >= 1]_vars

C19_Witness ==
    \E p \in Procs :
        /\ pc[p] = "idle" /\ ret[p].err = "dial" /\ ret[p].path = "grow"
        /\ gets = 2 /\ releases = 1 /\ ref = 1 /\ current = opt.MaxIdle

\* goroutine q's Get has read current and has not yet returned
GetPastRLock(q) ==
    pc[q] \in {"Get_fast", "Get_grow", "Get_grow_pick", "Get_wait", "Get_wait_load",
               "Get_ret_fast", "Get_ret_grow", "Get_ret_wait"}

\* goroutine p's shrink takes the connection of slot i[p] out and closes it
ShrinkRemoves(p) ==
    pc[p] = "decrRef_deleteFrom" /\ i'[p] = i[p] + 1

\* C20: with no Close, the shrink runs only under the write lock and after
\* seeing ref = 0 there; it never removes a connection that is borrowed or
\* that a Get past its reservation may return; and a Get that returns from a
\* slot returns a connection, one the shrink has not removed.
C20_ShrinkSpares ==
    [][closes' = 0 =>
         \A p \in Procs :
            /\ (pc[p] = "decrRef_Lock" /\ pc'[p] = "decrRef_deleteFrom") => ref = 0
            /\ pc'[p] = "decrRef_deleteFrom" => lockW' = p
            /\ ShrinkRemoves(p) =>
                  \A q \in Procs : ~BagIn(conns[i[p]], held[q]) /\ ~GetPastRLock(q)
            /\ (pc[p] \in {"Get_ret_fast", "Get_ret_grow", "Get_ret_wait"} /\ pc'[p] = "idle") =>
                  (ret'[p].conn # 0 /\ ret'[p].conn \notin shrunk)]_vars

C20_Witness ==
    /\ closes = 0 /\ shrunk # {}
    /\ \E p, q \in Procs :
          pc[p] = "decrRef_deleteFrom" /\ pc[q] = "Get_RLock" /\ nextRef[q] = 1

\* goroutine p is inside Get
InGet(p) == pc[p] = "Get_RLock" \/ pc[p] = "Get_over" \/ GetPastRLock(p)

RECURSIVE HeldSum(_)
HeldSum(n) == IF n = 0 THEN 0 ELSE BagCardinality(held[n]) + HeldSum(n - 1)

\* the connections the overflow branch has dialed and returned
Transients ==
    {w \in 1..Len(heap) : origin[w] = -1 /\ heap[w].ClientConn # 0}

\* the Gets that have returned a connection from a slot so far: those whose
\* connection is still borrowed or has been released, less the transient ones
SlotServed == releases + HeldSum(NumProcs) - Cardinality(Transients)

\* no call is in progress and Close has not been called
Settled == Running /\ closes = 0 /\ \A p \in Procs : pc[p] = "idle"

\* C21: a Get served from a slot adds exactly 1 to ref and 1 to index, and a
\* release takes exactly 1 from ref and leaves index alone: between calls
\* index is the number of Gets served from a slot and ref the number of Gets
\* less the number of releases, so a Get and its release on a fresh pool end
\* with index = 1 and ref = 0.
C21_GetReleaseCounts ==
    [][/\ releases' = releases + 1 => (ref' = ref - 1 /\ index' = index)
       /\ Settled' => (index' = SlotServed' /\ ref' = gets' - releases')]_vars

C21_Witness ==
    /\ Settled /\ gets = 1 /\ releases = 1
    /\ ret[1].path = "fast" /\ ret[1].conn # 0
    /\ index = 1 /\ ref = 0

\* C22: New returns an error for MaxIdle = 0, so that no pool with
\* current = 0 is given to a caller.
C22_NewRejectsZeroIdle ==
    /\ (newRes # "none" /\ opt.MaxIdle = 0) => newRes # "ok"
    /\ (newRes = "ok" /\ gets = 0) => current > 0

\* the min-heap order: no element is Less than its parent
HeapOrder(h) ==
    \A j \in 1..(Len(h) - 1) : ~Less(h, j, GoDiv(j - 1, 2))

\* the heap order holds but for the key of the element at position i
OrderedExceptAt(h, pos) ==
    \E k \in Keys : HeapOrder([h EXCEPT ![pos + 1] = k])

\* Remove(i) followed by a Push of the element removed
RemovePush(h, pos) ==
    up(Append(Remove(h, pos).rest, Remove(h, pos).x), Len(h) - 1)

\* C23: when the queue is in heap order but for the element at position i,
\* whose key was changed in place, Fix(i) leaves the whole queue in heap
\* order with the same elements, as Remove(i) and a Push of the element do.
C23_FixRestores ==
    [][(pqOp' = "Fix" /\ OrderedExceptAt(mh, pqArg')) =>
          /\ HeapOrder(mh')
          /\ BagOfSeq(mh') = BagOfSeq(mh)
          /\ HeapOrder(RemovePush(mh, pqArg'))
          /\ BagOfSeq(RemovePush(mh, pqArg')) = BagOfSeq(mh')]_vars

C23_Witness ==
    /\ pqOp = "Fix" /\ pqArg >= 1 /\ Len(mh) >= 3 /\ HeapOrder(mh)
    /\ mh[pqArg + 1] # mh[Len(mh)] /\ mh[1] # mh[Len(mh)]

\* goroutine p's Get makes its atomic add to ref
RefAdded(p) == pc[p] = "idle" /\ gets' = gets + 1 /\ pc'[p] # "idle"

\* C24: ref never wraps around unseen: a Get that finds ref at
\* math.MaxInt32 ends in the "overflow ref" panic, and no Get is given a
\* negative reservation number by a wrap of the 32-bit counter.
C24_NoSilentWrap ==
    [][\A p \in Procs :
          RefAdded(p) =>
              /\ ref = MaxInt32 => pc'[p] = "incrRef_panic"
              /\ ref' > 0 /\ nextRef'[p] > 0]_vars

\* the connections a dial has returned
Dialed == {w \in 1..Len(heap) : heap[w].ClientConn # 0}

\* connection w is borrowed, or its release is under way
WithBorrower(w) == \E p \in Procs : BagIn(w, held[p]) \/ relc[p] = w

\* the connections that were dialed for a slot and are still open
OpenSlotConns == {w \in Dialed : origin[w] >= 0 /\ Value(w) \notin closed}

\* the whole of the statement, transient connections included: every
\* connection a dial has returned is in exactly one slot, or is a transient
\* connection with its borrower, or is closed
C25_NoLeak ==
    newRes = "ok" =>
        /\ \A w \in Dialed :
              \/ Cardinality({k \in Slots : conns[k] = w}) = 1
              \/ origin[w] = -1 /\ WithBorrower(w)
              \/ Value(w) \in closed
        /\ Cardinality(OpenSlotConns) <= opt.MaxActive

\* C25, for the connections dialed for slots alone: each is in exactly one
\* slot or is closed, so no filled slot is overwritten with its connection
\* left open, and no more than MaxActive of them are open.
C25_NoSlotLeak ==
    newRes = "ok" =>
        /\ \A w \in Dialed :
              \/ Cardinality({k \in Slots : conns[k] = w}) = 1
              \/ origin[w] = -1
              \/ Value(w) \in closed
        /\ Cardinality(OpenSlotConns) <= opt.MaxActive

====
